---------------------------- MODULE Spec2Model ----------------------------
(***************************************************************************)
(* A model of snotify: the channel registry and its auto-naming, the      *)
(* broadcast / fallback dispatch of ANotifier.send, the blocking          *)
(* Notifier.send built on it, and the per-recipient loop of the concrete  *)
(* channels (Telegram, Email, Webhook).                                   *)
(*                                                                         *)
(* Python strings that the code inspects (channel names, class names) are *)
(* sequences of one-character strings, so that lower(), replace() and     *)
(* startswith() are computed the way str computes them.                   *)
(***************************************************************************)
EXTENDS Integers, Sequences, FiniteSets, TLC

(***************************************************************************)
(* Bounds of the model.                                                    *)
(***************************************************************************)
\* the longest registry built by add_channel
MaxChannels == 2
\* the longest fallback order handed to set_fallback_order
MaxOrder == 2
\* the longest recipient list handed to a concrete channel's send
MaxRecipients == 3

(***************************************************************************)
(* Python values.                                                          *)
(***************************************************************************)
\* an optional argument: None, or a value that was passed
None == [none |-> TRUE]
Some(v) == [none |-> FALSE, val |-> v]

\* bool(x) of an optional list argument: None and the empty list are falsy
Truthy(x) == IF x.none THEN FALSE ELSE Len(x.val) > 0

(***************************************************************************)
(* str methods used by add_channel.                                        *)
(***************************************************************************)
\* str.lower() on one character
LowerChar(c) ==
    CASE c = "A" -> "a" [] c = "B" -> "b" [] c = "C" -> "c" [] c = "D" -> "d"
      [] c = "E" -> "e" [] c = "F" -> "f" [] c = "G" -> "g" [] c = "H" -> "h"
      [] c = "I" -> "i" [] c = "J" -> "j" [] c = "K" -> "k" [] c = "L" -> "l"
      [] c = "M" -> "m" [] c = "N" -> "n" [] c = "O" -> "o" [] c = "P" -> "p"
      [] c = "Q" -> "q" [] c = "R" -> "r" [] c = "S" -> "s" [] c = "T" -> "t"
      [] c = "U" -> "u" [] c = "V" -> "v" [] c = "W" -> "w" [] c = "X" -> "x"
      [] c = "Y" -> "y" [] c = "Z" -> "z" [] OTHER -> c

\* str.lower()
Lower(s) == [i \in 1..Len(s) |-> LowerChar(s[i])]

\* str.startswith(prefix)
StartsWith(s, prefix) ==
    /\ Len(prefix) <= Len(s)
    /\ SubSeq(s, 1, Len(prefix)) = prefix

\* str.replace(old, new) for a non-empty old: every non-overlapping
\* occurrence, scanning from the left
RECURSIVE Replace(_, _, _)
Replace(s, old, new) ==
    IF Len(s) < Len(old) THEN s
    ELSE IF SubSeq(s, 1, Len(old)) = old
         THEN new \o Replace(SubSeq(s, Len(old) + 1, Len(s)), old, new)
         ELSE <<s[1]>> \o Replace(Tail(s), old, new)

Digits == <<"0", "1", "2", "3", "4", "5", "6", "7", "8", "9">>

\* str(n) of a natural number, as the f-string formats it
RECURSIVE Str(_)
Str(n) == IF n < 10 THEN <<Digits[n + 1]>>
          ELSE Str(n \div 10) \o <<Digits[(n % 10) + 1]>>

ChannelWord == <<"c", "h", "a", "n", "n", "e", "l">>

(***************************************************************************)
(* The channel objects handed to add_channel.  MockChannel is the test    *)
(* suite's channel (validate_config passes, send is scripted per          *)
(* campaign); MockupChannel is a second custom channel type.              *)
(***************************************************************************)
MockChannelName == <<"M", "o", "c", "k", "C", "h", "a", "n", "n", "e", "l">>
MockupChannelName ==
    <<"M", "o", "c", "k", "u", "p", "C", "h", "a", "n", "n", "e", "l">>
TelegramChannelName ==
    <<"T", "e", "l", "e", "g", "r", "a", "m", "C", "h", "a", "n", "n", "e", "l">>
\* a custom channel type whose name holds "Channel" twice
ChannelPoolChannelName ==
    <<"C", "h", "a", "n", "n", "e", "l", "P", "o", "o", "l",
      "C", "h", "a", "n", "n", "e", "l">>

ChannelObject(id) ==
    CASE id = "mockA" -> [cls |-> MockChannelName, recipients |-> <<"r1">>]
      [] id = "mockB" -> [cls |-> MockChannelName, recipients |-> <<"r2">>]
      [] id = "mockup" -> [cls |-> MockupChannelName, recipients |-> <<"r1">>]
      [] id = "pool" -> [cls |-> ChannelPoolChannelName,
                         recipients |-> <<"r1">>]
      [] id = "tgNoToken" -> [cls |-> TelegramChannelName, bot_token |-> "",
                              recipients |-> <<"r1">>]
      [] id = "tgNoRcpt" -> [cls |-> TelegramChannelName, bot_token |-> "tok",
                             recipients |-> <<>>]
      [] id = "tg" -> [cls |-> TelegramChannelName, bot_token |-> "tok",
                       recipients |-> <<"r1", "r2">>]

\* channel.__class__.__name__
ClassName(id) == ChannelObject(id).cls

\* channel.recipients
DefaultRecipients(id) == ChannelObject(id).recipients

\* channel.validate_config(): "ok", or the exception it raises
validate_config(id) ==
    LET ch == ChannelObject(id) IN
    IF ch.cls = TelegramChannelName
    THEN IF ch.bot_token = "" THEN "ValueError"
         ELSE IF Len(ch.recipients) = 0 THEN "ValueError"
         ELSE "ok"
    ELSE "ok"

(***************************************************************************)
(* Names.                                                                  *)
(***************************************************************************)
N_mock == <<"m", "o", "c", "k">>
N_mock_1 == <<"m", "o", "c", "k", "_", "1">>
N_second == <<"s", "e", "c", "o", "n", "d">>


\* explicit names callers pass to add_channel
ExplicitNames == {N_mock_1, N_second}

\* names callers put in a fallback order
OrderNames == {N_mock, N_second}

\* channel objects registered in the registration campaigns
RegObjects ==
    {"mockA", "mockB", "mockup", "pool", "tgNoToken", "tgNoRcpt", "tg"}

\* channel objects registered on the notifiers that send (their send is
\* scripted per call)
SendObjects == {"mockA", "mockB"}

\* the threads / coroutines that call send
Callers == {"c1", "c2"}

Messages == {"hello"}

\* the recipients argument of send: omitted, an empty list, a list
RecipientArgs == {None, Some(<<>>), Some(<<"r3">>)}

\* the recipients argument of a caller that passes none or a list of its own
CallerRecipientArgs == {None, Some(<<"r3">>)}

(***************************************************************************)
(* State.                                                                  *)
(***************************************************************************)
VARIABLES
    channels,        \* self.channels: the registry, a list of {name, channel}
    fallback_order,  \* self.fallback_order
    registrations,   \* history: for each registry entry, how it was named
    last_add,        \* history: the last add_channel call and how it ended
    last_order,      \* history: the argument of the last set_fallback_order
    campaign,        \* per caller: the send call it is in
    delivery         \* a concrete channel's send: its loop over recipients

vars == <<channels, fallback_order, registrations, last_add, last_order, campaign,
          delivery>>

NoError == [type |-> "none", from |-> "none"]

\* the exception a scripted channel's send raises
ChannelError(id) == [type |-> "ChannelError", from |-> id]

\* RuntimeError("All notification channels failed.")
AllChannelsFailed == [type |-> "AllChannelsFailed", from |-> "ANotifier.send"]

\* RuntimeError: asyncio.run() cannot be called from a running event loop
RunningLoopError == [type |-> "RunningLoop", from |-> "asyncio.run"]

IdleCampaign ==
    [pc |-> "idle", entry |-> "none", loop_running |-> FALSE,
     args |-> [message |-> "", recipients |-> None],
     an |-> [channels |-> <<>>, fallback_order |-> <<>>], at_call |-> 0,
     message |-> "", recipients |-> None,
     fails |-> {}, i |-> 0, calls |-> <<>>, ended |-> 0,
     result |-> "none", error |-> NoError]

IdleDelivery ==
    [pc |-> "idle", kind |-> "none", aliased |-> FALSE,
     self_recipients |-> <<>>, recipients_to_use |-> <<>>, started |-> 0,
     attempts |-> <<>>, result |-> "none", error |-> "none"]

NoAdd ==
    [op |-> "none", channel |-> "none", name |-> None, raised |-> "none",
     before |-> <<>>]

NoOrder == [set |-> FALSE, order |-> <<>>]

\* Notifier.__init__ / ANotifier.__init__
Init ==
    /\ channels = <<>>
    /\ fallback_order = <<>>
    /\ registrations = <<>>
    /\ last_add = NoAdd
    /\ last_order = NoOrder
    /\ campaign = [c \in Callers |-> IdleCampaign]
    /\ delivery = IdleDelivery

(***************************************************************************)
(* Registration: add_channel and set_fallback_order.  Notifier and         *)
(* ANotifier carry the same text for both.                                 *)
(***************************************************************************)
\* base_name = channel.__class__.__name__.lower().replace("channel", "")
BaseName(id) == Replace(Lower(ClassName(id)), ChannelWord, <<>>)

\* similar_channels: the entries whose name starts with base_name
SimilarChannels(chs, base_name) ==
    SelectSeq(chs, LAMBDA e : StartsWith(e.name, base_name))

\* the name given when add_channel is called without one
AutoName(chs, id) ==
    LET base_name == BaseName(id)
        similar_channels == SimilarChannels(chs, base_name)
    IN  IF Len(similar_channels) = 0
        THEN base_name
        ELSE base_name \o <<"_">> \o Str(Len(similar_channels))

\* the callers whose send call is in progress and has not met channel
\* object id yet
Meeting(cmp, id) ==
    {c \in Callers :
        /\ cmp[c].pc \in {"running", "awaiting"}
        /\ \A k \in 1..Len(cmp[c].an.channels) :
               cmp[c].an.channels[k].channel # id}

\* self.channels.append(...) as the send calls in progress see it: their
\* ANotifier holds the very list that is appended to (for Notifier.send,
\* async_notifier.channels = self.channels), so its loop and its lookups
\* come to the new entry.  A channel object a call has not met before
\* gets its script then: its send raises in the calls of `failing`.
Appended(cmp, entry, failing) ==
    [c \in Callers |->
        IF cmp[c].pc \in {"running", "awaiting"}
        THEN [cmp[c] EXCEPT
                !.an.channels = Append(@, entry),
                !.fails = IF c \in failing THEN @ \cup {entry.channel}
                          ELSE @]
        ELSE cmp[c]]

\* add_channel that registers first and validates afterwards
add_channel_validate_late(id, name) ==
    LET nm == IF name.none THEN AutoName(channels, id) ELSE name.val IN
    /\ channels' = Append(channels, [name |-> nm, channel |-> id])
    /\ registrations' = Append(registrations,
                               [auto |-> name.none, base |-> BaseName(id)])
    /\ last_add' = [op |-> "add_channel", channel |-> id, name |-> name,
                    raised |-> IF validate_config(id) = "ok" THEN "none"
                               ELSE validate_config(id),
                    before |-> channels]
    /\ \E failing \in SUBSET Meeting(campaign, id) :
           campaign' = Appended(campaign, [name |-> nm, channel |-> id],
                                failing)
    /\ UNCHANGED <<fallback_order, last_order, delivery>>

\* add_channel(channel, name)
add_channel(id, name) ==
    IF validate_config(id) # "ok"
    THEN /\ last_add' = [op |-> "add_channel", channel |-> id, name |-> name,
                         raised |-> validate_config(id), before |-> channels]
         /\ UNCHANGED <<channels, registrations, fallback_order, last_order,
                        campaign, delivery>>
    ELSE LET nm == IF name.none THEN AutoName(channels, id) ELSE name.val IN
         /\ channels' = Append(channels, [name |-> nm, channel |-> id])
         /\ registrations' = Append(registrations,
                                    [auto |-> name.none, base |-> BaseName(id)])
         /\ last_add' = [op |-> "add_channel", channel |-> id, name |-> name,
                         raised |-> "none", before |-> channels]
         /\ \E failing \in SUBSET Meeting(campaign, id) :
                campaign' = Appended(campaign,
                                     [name |-> nm, channel |-> id], failing)
         /\ UNCHANGED <<fallback_order, last_order, delivery>>

\* set_fallback_order that extends the order already set
set_fallback_order_extends(order) ==
    /\ fallback_order' = fallback_order \o order
    /\ last_order' = [set |-> TRUE, order |-> order]
    /\ UNCHANGED <<channels, registrations, last_add, campaign, delivery>>

\* set_fallback_order(order)
set_fallback_order(order) ==
    /\ fallback_order' = order
    /\ last_order' = [set |-> TRUE, order |-> order]
    /\ UNCHANGED <<channels, registrations, last_add, campaign, delivery>>

\* all sequences over S of length at most n
SeqsUpTo(S, n) == UNION {[1..k -> S] : k \in 0..n}

NameArgs == {None} \cup {Some(n) : n \in ExplicitNames}

\* a caller registers any channel object, named or not
AddChannelReg ==
    \E id \in RegObjects, name \in NameArgs :
        /\ Len(channels) < MaxChannels + 1
        /\ add_channel(id, name)

NextReg == AddChannelReg

\* the registration campaigns: sequences of add_channel calls
SpecReg == Init /\ [][NextReg]_vars

(***************************************************************************)
(* Dispatch: ANotifier.send, as the steps of one campaign.                 *)
(***************************************************************************)
\* a lookup that returns the entry registered last under the name
Lookup_last_match(chs, name) ==
    IF \E k \in 1..Len(chs) : chs[k].name = name
    THEN CHOOSE k \in 1..Len(chs) :
            /\ chs[k].name = name
            /\ \A j \in (k + 1)..Len(chs) : chs[j].name # name
    ELSE 0

\* next((ch for ch in self.channels if ch["name"] == name), None): the
\* index of the first entry with that name, 0 for None
Lookup(chs, name) ==
    IF \E k \in 1..Len(chs) : chs[k].name = name
    THEN CHOOSE k \in 1..Len(chs) :
            /\ chs[k].name = name
            /\ \A j \in 1..(k - 1) : chs[j].name # name
    ELSE 0

\* recipients or channel.recipients
EffectiveRecipients(recipients, id) ==
    IF Truthy(recipients) THEN recipients.val ELSE DefaultRecipients(id)

\* `if not self.fallback_order`: the branch send takes
Broadcast(cm) == Len(cm.an.fallback_order) = 0

\* the channel.send(message=..., recipients=...) call on registry entry k
Invocation(cm, k) ==
    [entry |-> k,
     channel |-> cm.an.channels[k].channel,
     message |-> cm.message,
     recipients |-> EffectiveRecipients(cm.recipients,
                                        cm.an.channels[k].channel)]

\* a send call as it starts: self, the arguments, nothing invoked yet
StartCampaign(entry, loop_running, args, an, message, recipients, fails) ==
    [pc |-> "running", entry |-> entry, loop_running |-> loop_running,
     args |-> args, an |-> an, at_call |-> Len(an.channels),
     message |-> message,
     recipients |-> recipients, fails |-> fails, i |-> 0, calls |-> <<>>,
     ended |-> 0, result |-> "none", error |-> NoError]

\* the awaited channel.send returned, and the loop goes on to the next item
OnReturned_no_break(cm) == [cm EXCEPT !.pc = "running", !.i = @ + 1]

\* the awaited channel.send returned, and the campaign ends there
OnReturned_stop(cm) == [cm EXCEPT !.pc = "done", !.result = "returned"]

\* the awaited channel.send returned: broadcast goes on to the next
\* channel, fallback breaks out of the loop
OnReturned(cm) ==
    IF Broadcast(cm)
    THEN [cm EXCEPT !.pc = "running", !.i = @ + 1]
    ELSE [cm EXCEPT !.pc = "done", !.result = "returned"]

\* the awaited channel.send raised, and fallback invokes that channel a
\* second time before going on to the next name
OnRaised_retry_once(cm, e) ==
    IF Broadcast(cm)
    THEN [cm EXCEPT !.pc = "done", !.result = "raised", !.error = e]
    ELSE IF Cardinality({n \in 1..Len(cm.calls) :
                 cm.calls[n].entry = cm.calls[Len(cm.calls)].entry}) = 1
    THEN [cm EXCEPT !.pc = "running"]
    ELSE [cm EXCEPT !.pc = "running", !.i = @ + 1]

\* the awaited channel.send raised, and the error is re-raised in both modes
OnRaised_propagate(cm, e) ==
    [cm EXCEPT !.pc = "done", !.result = "raised", !.error = e]

\* the awaited channel.send raised, and broadcast wraps the error
OnRaised_wrap(cm, e) ==
    IF Broadcast(cm)
    THEN [cm EXCEPT !.pc = "done", !.result = "raised",
                    !.error = AllChannelsFailed]
    ELSE [cm EXCEPT !.pc = "running", !.i = @ + 1]

\* the awaited channel.send raised e: broadcast re-raises it, fallback logs
\* it and goes on to the next name
OnRaised(cm, e) ==
    IF Broadcast(cm)
    THEN [cm EXCEPT !.pc = "done", !.result = "raised", !.error = e]
    ELSE [cm EXCEPT !.pc = "running", !.i = @ + 1]

\* the for loop is exhausted, and a send that found no channel registered
\* fails in either mode
OnExhausted_empty_registry_fails(cm) ==
    IF Broadcast(cm) /\ Len(cm.an.channels) > 0
    THEN [cm EXCEPT !.pc = "done", !.result = "returned"]
    ELSE [cm EXCEPT !.pc = "done", !.result = "raised",
                    !.error = AllChannelsFailed]

\* the for loop is exhausted and the call neither returns nor raises
OnExhausted_stay(cm) == cm

\* the for loop is exhausted: broadcast returns, fallback reports success
OnExhausted_success(cm) == [cm EXCEPT !.pc = "done", !.result = "returned"]

\* the for loop is exhausted: broadcast returns, fallback's else clause
\* raises RuntimeError("All notification channels failed.")
OnExhausted(cm) ==
    IF Broadcast(cm)
    THEN [cm EXCEPT !.pc = "done", !.result = "returned"]
    ELSE [cm EXCEPT !.pc = "done", !.result = "raised",
                    !.error = AllChannelsFailed]

\* the items the loop runs over: the registry, or the fallback order
LoopLength(cm) ==
    IF Broadcast(cm) THEN Len(cm.an.channels) ELSE Len(cm.an.fallback_order)

\* the loop runs over the registry in both modes, the order only setting
\* its length
Selected_registration_order(cm) ==
    IF cm.i + 1 <= Len(cm.an.channels) THEN cm.i + 1 ELSE 0

\* the registry entry the loop's next item selects, 0 when the name of a
\* fallback order matches no entry
Selected(cm) ==
    IF Broadcast(cm)
    THEN cm.i + 1
    ELSE Lookup(cm.an.channels, cm.an.fallback_order[cm.i + 1])

\* the scripts a campaign may meet when it starts: each registered channel
\* object either returns from every send of the campaign or raises from
\* every one
Scripts(chs) == SUBSET {chs[k].channel : k \in 1..Len(chs)}

\* await ANotifier.send(message, recipients), called on the notifier
ANotifier_send(c, message, recipients, fails) ==
    /\ campaign[c].pc = "idle"
    /\ campaign' = [campaign EXCEPT ![c] =
          StartCampaign("ANotifier", TRUE,
                        [message |-> message, recipients |-> recipients],
                        [channels |-> channels,
                         fallback_order |-> fallback_order],
                        message, recipients, fails)]
    /\ UNCHANGED <<channels, fallback_order, registrations, last_add, last_order,
                   delivery>>

\* _async_send of a Notifier.send that hands nothing but the message on
AsyncSend_drops_recipients(self_channels, self_fallback_order, message, recipients) ==
    [an |-> [channels |-> self_channels,
             fallback_order |-> self_fallback_order],
     message |-> message, recipients |-> None]

\* _async_send: a fresh ANotifier given the Notifier's registry and order,
\* and the send call made on it
AsyncSend(self_channels, self_fallback_order, message, recipients) ==
    [an |-> [channels |-> self_channels,
             fallback_order |-> self_fallback_order],
     message |-> message, recipients |-> recipients]

\* Notifier.send that moves its registry into the temporary ANotifier and
\* is left with an empty one
Notifier_send_moves_registry(c, message, recipients, fails, loop_running) ==
    /\ campaign[c].pc = "idle"
    /\ campaign' = [campaign EXCEPT ![c] =
          LET call == AsyncSend(channels, fallback_order, message, recipients)
              cm == StartCampaign("Notifier", loop_running,
                                  [message |-> message,
                                   recipients |-> recipients],
                                  call.an, call.message, call.recipients, fails)
          IN  IF loop_running
              THEN [cm EXCEPT !.pc = "done", !.result = "raised",
                              !.error = RunningLoopError]
              ELSE cm]
    /\ channels' = IF loop_running THEN channels ELSE <<>>
    /\ UNCHANGED <<fallback_order, registrations, last_add, last_order,
                   delivery>>

\* Notifier.send that joins the run another call of the same Notifier has in
\* flight, instead of making an ANotifier and a run of its own
Notifier_send_joins_run(c, message, recipients, fails, loop_running) ==
    /\ campaign[c].pc = "idle"
    /\ campaign' = [campaign EXCEPT ![c] =
          LET call == AsyncSend(channels, fallback_order, message, recipients)
              cm == StartCampaign("Notifier", loop_running,
                                  [message |-> message,
                                   recipients |-> recipients],
                                  call.an, call.message, call.recipients, fails)
              inflight == {o \in Callers \ {c} :
                              campaign[o].pc \in {"running", "awaiting"}}
          IN  IF loop_running
              THEN [cm EXCEPT !.pc = "done", !.result = "raised",
                              !.error = RunningLoopError]
              ELSE IF inflight # {}
              THEN [campaign[CHOOSE o \in inflight : TRUE] EXCEPT
                        !.args = cm.args]
              ELSE cm]
    /\ UNCHANGED <<channels, fallback_order, registrations, last_add, last_order,
                   delivery>>

\* Notifier.send(message, recipients): asyncio.run(_async_send()).
\* asyncio.run refuses to start inside a running event loop.
Notifier_send(c, message, recipients, fails, loop_running) ==
    /\ campaign[c].pc = "idle"
    /\ campaign' = [campaign EXCEPT ![c] =
          LET call == AsyncSend(channels, fallback_order, message, recipients)
              cm == StartCampaign("Notifier", loop_running,
                                  [message |-> message,
                                   recipients |-> recipients],
                                  call.an, call.message, call.recipients, fails)
          IN  IF loop_running
              THEN [cm EXCEPT !.pc = "done", !.result = "raised",
                              !.error = RunningLoopError]
              ELSE cm]
    /\ UNCHANGED <<channels, fallback_order, registrations, last_add, last_order,
                   delivery>>

\* the loop takes its next item and starts that channel's send without
\* awaiting it
Invoke_no_await(c) ==
    LET cm == campaign[c] IN
    /\ cm.pc = "running"
    /\ cm.i < LoopLength(cm)
    /\ Selected(cm) # 0
    /\ campaign' = [campaign EXCEPT ![c] =
          [cm EXCEPT !.i = @ + 1,
                     !.calls = Append(@, Invocation(cm, Selected(cm)))]]
    /\ UNCHANGED <<channels, fallback_order, registrations, last_add, last_order,
                   delivery>>

\* the loop takes its next item and awaits that channel's send
Invoke(c) ==
    LET cm == campaign[c] IN
    /\ cm.pc = "running"
    /\ cm.i < LoopLength(cm)
    /\ Selected(cm) # 0
    /\ campaign' = [campaign EXCEPT ![c] =
          [cm EXCEPT !.pc = "awaiting",
                     !.calls = Append(@, Invocation(cm, Selected(cm)))]]
    /\ UNCHANGED <<channels, fallback_order, registrations, last_add, last_order,
                   delivery>>

\* fallback: the name matches no entry, and the lookup failure is raised
SkipMissing_raises(c) ==
    LET cm == campaign[c] IN
    /\ cm.pc = "running"
    /\ cm.i < LoopLength(cm)
    /\ Selected(cm) = 0
    /\ campaign' = [campaign EXCEPT ![c] =
          [cm EXCEPT !.pc = "done", !.result = "raised",
                     !.error = [type |-> "ChannelNotFound",
                                from |-> "ANotifier.send"]]]
    /\ UNCHANGED <<channels, fallback_order, registrations, last_add, last_order,
                   delivery>>

\* fallback: the name matches no entry; a warning is logged, `continue`
SkipMissing(c) ==
    LET cm == campaign[c] IN
    /\ cm.pc = "running"
    /\ cm.i < LoopLength(cm)
    /\ Selected(cm) = 0
    /\ campaign' = [campaign EXCEPT ![c] = [cm EXCEPT !.i = @ + 1]]
    /\ UNCHANGED <<channels, fallback_order, registrations, last_add, last_order,
                   delivery>>

\* the channel's send ends as the campaign's script says
ChannelSendEnds(c) ==
    LET cm == campaign[c]
        id == cm.calls[Len(cm.calls)].channel
    IN
    /\ cm.pc = "awaiting"
    /\ campaign' = [campaign EXCEPT ![c] =
          LET resumed == [cm EXCEPT !.ended = @ + 1] IN
          IF id \in cm.fails THEN OnRaised(resumed, ChannelError(id))
          ELSE OnReturned(resumed)]
    /\ UNCHANGED <<channels, fallback_order, registrations, last_add, last_order,
                   delivery>>

\* the loop has no item left
Exhausted(c) ==
    LET cm == campaign[c] IN
    /\ cm.pc = "running"
    /\ cm.i >= LoopLength(cm)
    /\ campaign' = [campaign EXCEPT ![c] = OnExhausted(cm)]
    /\ UNCHANGED <<channels, fallback_order, registrations, last_add, last_order,
                   delivery>>

\* the caller has the outcome of its send call
Return(c) ==
    /\ campaign[c].pc = "done"
    /\ campaign' = [campaign EXCEPT ![c] = IdleCampaign]
    /\ UNCHANGED <<channels, fallback_order, registrations, last_add, last_order,
                   delivery>>

Step(c) ==
    \/ Invoke(c)
    \/ SkipMissing(c)
    \/ ChannelSendEnds(c)
    \/ Exhausted(c)
    \/ Return(c)

\* the add_channel calls of the owner: mockA under its automatic name,
\* mockB under the explicit name "second"
OwnerRegistrations ==
    {[channel |-> "mockA", name |-> None],
     [channel |-> "mockB", name |-> Some(N_second)]}

\* the owner registers a channel, at any time
AddChannel ==
    \E reg \in OwnerRegistrations :
        /\ Len(channels) < MaxChannels
        /\ add_channel(reg.channel, reg.name)

\* the owner sets an order, at any time
SetFallbackOrder ==
    \E order \in SeqsUpTo(OrderNames, MaxOrder) :
        set_fallback_order(order)

SendAsync(c) ==
    \E message \in Messages, recipients \in RecipientArgs,
       fails \in Scripts(channels) :
        ANotifier_send(c, message, recipients, fails)

SendBlocking(c) ==
    \E message \in Messages, recipients \in RecipientArgs,
       fails \in Scripts(channels), loop_running \in BOOLEAN :
        Notifier_send(c, message, recipients, fails, loop_running)

Next ==
    \/ AddChannel
    \/ SetFallbackOrder
    \/ SendAsync("c1")
    \/ Step("c1")

\* one caller making send calls one after another, and the owner of the
\* notifier registering channels and setting orders
Spec == Init /\ [][Next]_vars

\* the owner registers a channel under its automatic name, at any time
AddChannelAuto ==
    \E id \in SendObjects :
        /\ Len(channels) < MaxChannels
        /\ add_channel(id, None)

\* the orders of an application that switches between broadcast and one
\* fallback order, the channel registered second first
SwitchOrders == {<<>>, <<N_mock_1, N_mock>>}

\* the owner switches the order, at any time
SwitchFallbackOrder ==
    \E order \in SwitchOrders : set_fallback_order(order)

NextLive ==
    \/ AddChannelAuto
    \/ SwitchFallbackOrder
    \/ SendAsync("c1")
    \/ Step("c1")

\* one caller whose coroutine the event loop keeps running: every awaited
\* channel send ends, and every enabled step of the call is taken
SpecLive == Init /\ [][NextLive]_vars /\ WF_vars(Step("c1"))

\* the add_channel calls of an owner who gives every channel the explicit
\* name "second"
SameNameRegistrations ==
    {[channel |-> "mockA", name |-> Some(N_second)],
     [channel |-> "mockB", name |-> Some(N_second)]}

\* the owner registers a channel under the name "second", at any time
AddChannelSameName ==
    \E reg \in SameNameRegistrations :
        /\ Len(channels) < MaxChannels
        /\ add_channel(reg.channel, reg.name)

\* broadcast, or the fallback order that names "second"
SameNameOrders == {<<>>, <<N_second>>}

\* the owner sets one of these orders, at any time
SetSameNameOrder ==
    \E order \in SameNameOrders : set_fallback_order(order)

NextSameName ==
    \/ AddChannelSameName
    \/ SetSameNameOrder
    \/ SendAsync("c1")
    \/ Step("c1")

\* one caller sending through a notifier whose channels share one name
SpecSameName == Init /\ [][NextSameName]_vars

\* the recipients a thread passes: the first none or a list of its own,
\* the second none
ThreadRecipientArgs(c) == IF c = "c1" THEN CallerRecipientArgs ELSE {None}

\* a thread with no event loop of its own calls Notifier.send
SendThread(c) ==
    \E message \in Messages, recipients \in ThreadRecipientArgs(c),
       fails \in Scripts(channels) :
        Notifier_send(c, message, recipients, fails, FALSE)

\* two threads send through one Notifier, their calls interleaved step by
\* step with each other and with the owner's registrations and orders
NextConc ==
    \/ AddChannelAuto
    \/ SwitchFallbackOrder
    \/ SendThread("c1")
    \/ SendThread("c2")
    \/ Step("c1")
    \/ Step("c2")

SpecConc == Init /\ [][NextConc]_vars

\* the call a blocking caller has just made, made again on an ANotifier
\* holding the same registry and order, against the same channel scripts
SendAsyncTwin(c, blocking) ==
    /\ campaign[blocking].pc = "done"
    /\ campaign[blocking].entry = "Notifier"
    /\ ANotifier_send(c, campaign[blocking].args.message,
                      campaign[blocking].args.recipients,
                      campaign[blocking].fails)

\* a blocking call is made once the comparison of the one before is over
SendBlockingNext(c, twin) ==
    /\ campaign[twin].pc = "idle"
    /\ SendBlocking(c)

\* a Notifier and an ANotifier over the same registry and order: caller c1
\* sends through the blocking one, caller c2 repeats the call on the other
NextEquiv ==
    \/ AddChannelAuto
    \/ SwitchFallbackOrder
    \/ SendBlockingNext("c1", "c2")
    \/ SendAsyncTwin("c2", "c1")
    \/ Step("c1")
    \/ Step("c2")

SpecEquiv == Init /\ [][NextEquiv]_vars

(***************************************************************************)
(* The concrete channels: the loop of send over the recipients.            *)
(***************************************************************************)
ChannelKinds == {"telegram", "email", "webhook"}

\* what the transport does with one recipient: the HTTP status of the
\* response or an exception out of session.post (telegram, webhook); the
\* mail accepted or an exception out of aiosmtplib.send (email)
TransportOutcomes(kind) ==
    IF kind = "email" THEN {"sent", "SMTPException"}
    ELSE {"200", "500", "ClientError"}

\* the exception raised for a transport outcome when the response status
\* is not looked at: only an exception of the transport ends the loop
RaisedFor_ignores_status(kind, outcome) ==
    IF kind = "email"
    THEN IF outcome = "sent" THEN "none" ELSE "RuntimeError"
    ELSE IF outcome = "ClientError" THEN "ClientError" ELSE "none"

\* the exception one recipient's transport outcome makes send raise,
\* "none" when the loop goes on: a status other than 200 raises
\* RuntimeError, an exception of session.post propagates, an exception of
\* aiosmtplib.send is re-raised as RuntimeError
RaisedFor(kind, outcome) ==
    IF kind = "email"
    THEN IF outcome = "sent" THEN "none" ELSE "RuntimeError"
    ELSE IF outcome = "200" THEN "none"
         ELSE IF outcome = "ClientError" THEN "ClientError"
         ELSE "RuntimeError"

\* recipients if recipients is not None else self.recipients
RecipientsToUse(recipients, self_recipients) ==
    IF recipients.none THEN self_recipients ELSE recipients.val

\* TelegramChannel.send / EmailChannel.send / WebhookChannel.send is called.
\* `own` says that the recipients argument is the list object
\* self.recipients, as it is in the calls of ANotifier.send made with
\* `recipients or channel.recipients` when its own argument is omitted or
\* empty.  Then, and without a recipients argument, the loop runs over
\* self.recipients itself; any other list, equal or not, is a list apart.
ChannelSend(kind, recipients, self_recipients, own) ==
    /\ delivery.pc = "idle"
    /\ own => recipients = Some(self_recipients)
    /\ delivery' = [pc |-> "loop", kind |-> kind,
                    aliased |-> recipients.none \/ own,
                    self_recipients |-> self_recipients,
                    recipients_to_use |->
                        RecipientsToUse(recipients, self_recipients),
                    started |-> 0,
                    attempts |-> <<>>, result |-> "none", error |-> "none"]
    /\ UNCHANGED <<channels, fallback_order, registrations, last_add, last_order,
                   campaign>>

\* the loop takes the next recipient and awaits the transport operation:
\* session.post (telegram, webhook) or aiosmtplib.send (email)
TransportStarts ==
    LET d == delivery IN
    /\ d.pc = "loop"
    /\ Len(d.attempts) < Len(d.recipients_to_use)
    /\ delivery' = [d EXCEPT !.pc = "posting", !.started = @ + 1]
    /\ UNCHANGED <<channels, fallback_order, registrations, last_add, last_order,
                   campaign>>

\* the awaited transport operation ends with an outcome: the loop goes on,
\* or telegram awaits the body of a response whose status is not 200, or
\* the send raises
Attempt(outcome) ==
    LET d == delivery
        r == d.recipients_to_use[Len(d.attempts) + 1]
        att == Append(d.attempts, [recipient |-> r, outcome |-> outcome])
    IN
    /\ d.pc = "posting"
    /\ outcome \in TransportOutcomes(d.kind)
    /\ delivery' =
          IF RaisedFor(d.kind, outcome) = "none"
          THEN [d EXCEPT !.attempts = att, !.pc = "loop"]
          ELSE IF d.kind = "telegram" /\ outcome = "500"
          THEN [d EXCEPT !.attempts = att, !.pc = "reading"]
          ELSE [d EXCEPT !.attempts = att, !.pc = "done",
                         !.result = "raised",
                         !.error = RaisedFor(d.kind, outcome)]
    /\ UNCHANGED <<channels, fallback_order, registrations, last_add, last_order,
                   campaign>>

\* telegram: await response.text() ends; the body goes into the message of
\* the RuntimeError raised, or the read fails and its own error propagates
BodyRead(read) ==
    LET d == delivery IN
    /\ d.pc = "reading"
    /\ delivery' = [d EXCEPT !.pc = "done", !.result = "raised",
                             !.error = IF read = "text"
                                       THEN RaisedFor(d.kind, "500")
                                       ELSE read]
    /\ UNCHANGED <<channels, fallback_order, registrations, last_add, last_order,
                   campaign>>

\* the loop is through: send returns None
ChannelSendReturns ==
    /\ delivery.pc = "loop"
    /\ Len(delivery.attempts) = Len(delivery.recipients_to_use)
    /\ delivery' = [delivery EXCEPT !.pc = "done", !.result = "returned"]
    /\ UNCHANGED <<channels, fallback_order, registrations, last_add, last_order,
                   campaign>>

\* the caller of the channel has the outcome
ChannelSendOver ==
    /\ delivery.pc = "done"
    /\ delivery' = IdleDelivery
    /\ UNCHANGED <<channels, fallback_order, registrations, last_add, last_order,
                   campaign>>

RecipientIds == {"r1", "r2"}

\* while the send is suspended another task of the event loop appends a
\* recipient to channel.recipients; a loop that runs over that very list
\* comes to the new recipient
RecipientAppended ==
    \E r \in RecipientIds :
        LET d == delivery IN
        /\ d.pc \in {"posting", "reading"}
        /\ Len(d.self_recipients) < MaxRecipients
        /\ delivery' =
              [d EXCEPT !.self_recipients = Append(@, r),
                        !.recipients_to_use =
                            IF d.aliased THEN Append(@, r) ELSE @]
        /\ UNCHANGED <<channels, fallback_order, registrations, last_add,
                       last_order, campaign>>

CallChannelSend ==
    \E kind \in ChannelKinds,
       recipients \in {None} \cup
                      {Some(l) : l \in SeqsUpTo(RecipientIds, MaxRecipients)},
       self_recipients \in {<<"r1">>, <<"r1", "r2">>},
       own \in BOOLEAN :
        ChannelSend(kind, recipients, self_recipients, own)

AttemptNext == \E outcome \in {"sent", "SMTPException", "200", "500",
                               "ClientError"} : Attempt(outcome)

BodyReadEnds == \E read \in {"text", "ClientError"} : BodyRead(read)

NextChan ==
    \/ CallChannelSend
    \/ TransportStarts
    \/ AttemptNext
    \/ BodyReadEnds
    \/ RecipientAppended
    \/ ChannelSendReturns
    \/ ChannelSendOver

\* a concrete channel delivering to its recipients
SpecChan == Init /\ [][NextChan]_vars

(***************************************************************************)
(* Claims about registration, checked under SpecReg.                       *)
(***************************************************************************)
\* the number of registry entries before entry i that were auto-named
\* from the same base name as entry i
EarlierSameBase(i) ==
    Cardinality({j \in 1..(i - 1) :
                    /\ registrations[j].auto
                    /\ registrations[j].base = registrations[i].base})

\* C6: the registrations made without an explicit name that share a base
\* name receive base, base_1, base_2, ... in registration order, whatever
\* other channels are registered in between.
C6_AutoNamesCountOwnBase ==
    \A i \in 1..Len(channels) :
        registrations[i].auto =>
            channels[i].name =
                IF EarlierSameBase(i) = 0
                THEN registrations[i].base
                ELSE registrations[i].base \o <<"_">> \o Str(EarlierSameBase(i))

\* C7: a name assigned by add_channel (no explicit name given) differs
\* from every name that was in the registry at that moment.
C7_AutoNameIsFresh ==
    \A i \in 1..Len(channels) :
        registrations[i].auto =>
            \A j \in 1..(i - 1) : channels[j].name # channels[i].name

\* C8: when validate_config raises, add_channel propagates that error and
\* leaves the registry as it was; otherwise it appends exactly one entry,
\* holding the channel, after the entries that were there, which are kept
\* in place.
C8_InvalidConfigAbortsRegistration ==
    last_add.op = "add_channel" =>
        IF validate_config(last_add.channel) # "ok"
        THEN /\ last_add.raised = validate_config(last_add.channel)
             /\ channels = last_add.before
        ELSE /\ last_add.raised = "none"
             /\ Len(channels) = Len(last_add.before) + 1
             /\ SubSeq(channels, 1, Len(last_add.before)) = last_add.before
             /\ channels[Len(channels)].channel = last_add.channel
             /\ ~last_add.name.none =>
                    channels[Len(channels)].name = last_add.name.val

\* C8, witness: an add_channel call was refused on a non-empty registry,
\* which is still there.
C8_Witness_RefusedOnNonEmptyRegistry ==
    /\ last_add.op = "add_channel"
    /\ last_add.raised = "ValueError"
    /\ Len(last_add.before) >= 1
    /\ channels = last_add.before

(***************************************************************************)
(* Claims about dispatch, checked under Spec.                              *)
(***************************************************************************)
\* the body of ANotifier.send is running or has run for this campaign
Dispatched(cm) ==
    /\ cm.pc # "idle"
    /\ ~(cm.entry = "Notifier" /\ cm.loop_running)

\* no channel was registered while the send call was in progress: its
\* registry is the one it was called with (the usage the notifier is
\* designed for: registration is done before sends begin)
Undisturbed(cm) == Len(cm.an.channels) = cm.at_call

\* the order has not been set to another one since the call was made
OrderUnchanged(cm) == fallback_order = cm.an.fallback_order

\* the registry entries the campaign has invoked, in invocation order
CallEntries(cm) == [k \in 1..Len(cm.calls) |-> cm.calls[k].entry]

\* the registry entry named at position p of the fallback order, 0 if none
Named(cm, p) == Lookup(cm.an.channels, cm.an.fallback_order[p])

\* the send of registry entry k fails in this campaign
EntryFails(cm, k) == cm.an.channels[k].channel \in cm.fails

\* the entries named at positions 1..p of the fallback order, in that order
RECURSIVE NamedUpTo(_, _)
NamedUpTo(cm, p) ==
    IF p = 0 THEN <<>>
    ELSE NamedUpTo(cm, p - 1) \o
         (IF Named(cm, p) # 0 THEN <<Named(cm, p)>> ELSE <<>>)

IsPrefix(a, b) == Len(a) <= Len(b) /\ SubSeq(b, 1, Len(a)) = a

\* the positions of the fallback order that name a channel whose send succeeds
SucceedingPositions(cm) ==
    {p \in 1..Len(cm.an.fallback_order) :
        Named(cm, p) # 0 /\ ~EntryFails(cm, Named(cm, p))}

Min(S) == CHOOSE x \in S : \A y \in S : x <= y

\* how many times x occurs in the sequence q
Count(q, x) == Cardinality({k \in 1..Len(q) : q[k] = x})

\* C1: in fallback mode the channels named in the order are invoked one
\* after another in that order, not in registration order; the first one
\* whose send succeeds ends the call, which succeeds, and nothing named
\* after it is invoked.
C1_FallbackStopsAtFirstSuccess ==
    \A c \in Callers :
        LET cm == campaign[c] IN
        (Dispatched(cm) /\ Undisturbed(cm) /\ ~Broadcast(cm)) =>
            IF SucceedingPositions(cm) = {}
            THEN IsPrefix(CallEntries(cm),
                          NamedUpTo(cm, Len(cm.an.fallback_order)))
            ELSE LET first == Min(SucceedingPositions(cm)) IN
                 /\ IsPrefix(CallEntries(cm), NamedUpTo(cm, first))
                 /\ cm.pc = "done" =>
                        /\ cm.result = "returned"
                        /\ CallEntries(cm) = NamedUpTo(cm, first)

\* C1, witness: the order names the second registered channel first; it
\* succeeds, the call succeeds, and the other named channel is not invoked.
C1_Witness_FirstNamedSucceeds ==
    LET cm == campaign["c1"] IN
    /\ Dispatched(cm) /\ Undisturbed(cm) /\ cm.pc = "done" /\ cm.result = "returned"
    /\ Len(cm.an.fallback_order) = 2
    /\ Named(cm, 1) = 2 /\ Named(cm, 2) = 1
    /\ ~EntryFails(cm, 2)
    /\ CallEntries(cm) = <<2>>

\* C2 as stated: in fallback mode, when the send of every named channel
\* fails, send raises the all-channels-failed error, after each of those
\* channels has been invoked exactly once.
C2_Stated_AllFailEachInvokedOnce ==
    \A c \in Callers :
        LET cm == campaign[c] IN
        (Dispatched(cm) /\ Undisturbed(cm) /\ ~Broadcast(cm) /\ cm.pc = "done"
            /\ SucceedingPositions(cm) = {}) =>
            /\ cm.result = "raised" /\ cm.error = AllChannelsFailed
            /\ \A p \in 1..Len(cm.an.fallback_order) :
                   Named(cm, p) # 0 => Count(CallEntries(cm), Named(cm, p)) = 1

\* C2, amended: in fallback mode, when the send of every named channel
\* fails, send raises the all-channels-failed error, and only after each
\* of those channels has been invoked once for every occurrence of its
\* name in the order (exactly once when the order names it once).
C2_AllFailInvokedOncePerOccurrence ==
    \A c \in Callers :
        LET cm == campaign[c]
            whole == NamedUpTo(cm, Len(cm.an.fallback_order))
        IN
        (Dispatched(cm) /\ Undisturbed(cm) /\ ~Broadcast(cm)
            /\ SucceedingPositions(cm) = {}) =>
            /\ cm.pc = "done" =>
                   cm.result = "raised" /\ cm.error = AllChannelsFailed
            /\ cm.result = "raised" =>
                   \A k \in 1..Len(cm.an.channels) :
                       Count(CallEntries(cm), k) = Count(whole, k)

\* C2, witness: two different channels are named, both fail, both were
\* invoked and the aggregate error is raised.
C2_Witness_BothNamedFail ==
    LET cm == campaign["c1"] IN
    /\ Dispatched(cm) /\ Undisturbed(cm) /\ cm.pc = "done"
    /\ cm.error = AllChannelsFailed
    /\ Len(cm.an.fallback_order) = 2
    /\ Named(cm, 1) # 0 /\ Named(cm, 2) # 0 /\ Named(cm, 1) # Named(cm, 2)
    /\ Len(cm.calls) = 2

\* C3: in broadcast mode the channels are invoked in registration order;
\* as soon as one channel's send fails, send raises that channel's own
\* error, unwrapped, and no channel registered after it is invoked.
C3_BroadcastFailsFast ==
    \A c \in Callers :
        LET cm == campaign[c]
            n == Len(cm.calls)
        IN
        (Dispatched(cm) /\ Broadcast(cm)) =>
            /\ \A k \in 1..n : cm.calls[k].entry = k
            /\ \A k \in 1..(n - 1) : ~EntryFails(cm, k)
            /\ (n > 0 /\ EntryFails(cm, n)) =>
                   /\ cm.pc \in {"awaiting", "done"}
                   /\ cm.pc = "done" =>
                          /\ cm.result = "raised"
                          /\ cm.error = ChannelError(cm.calls[n].channel)

\* C3, witness: two channels registered, the first one fails: its error is
\* raised and the second was never invoked.
C3_Witness_FirstFailsSecondUntouched ==
    LET cm == campaign["c1"] IN
    /\ Dispatched(cm) /\ Broadcast(cm) /\ cm.pc = "done"
    /\ Len(cm.an.channels) = 2
    /\ EntryFails(cm, 1)
    /\ cm.result = "raised"
    /\ cm.error = ChannelError(cm.an.channels[1].channel)
    /\ Len(cm.calls) = 1

\* C4: in broadcast mode, when every registered channel's send succeeds,
\* each registered channel is invoked exactly once, in registration order,
\* and send completes without error.
C4_BroadcastAllSucceed ==
    \A c \in Callers :
        LET cm == campaign[c] IN
        (Dispatched(cm) /\ Broadcast(cm) /\ cm.pc = "done"
            /\ \A k \in 1..Len(cm.an.channels) : ~EntryFails(cm, k)) =>
            /\ cm.result = "returned"
            /\ CallEntries(cm) = [k \in 1..Len(cm.an.channels) |-> k]

\* C4, witness: a broadcast over two channels that both succeed has ended.
C4_Witness_TwoChannelsBothInvoked ==
    LET cm == campaign["c1"] IN
    /\ Dispatched(cm) /\ Broadcast(cm) /\ cm.pc = "done"
    /\ Len(cm.an.channels) = 2
    /\ cm.fails = {}
    /\ cm.result = "returned"
    /\ Len(cm.calls) = 2

\* C5: every channel invoked by a send call made with an explicit
\* recipient list, the empty list included, receives exactly that list;
\* when the argument is omitted each invoked channel receives its own
\* default list.
C5_Stated_ExplicitRecipientsAlwaysWin ==
    \A c \in Callers :
        LET cm == campaign[c] IN
        \A k \in 1..Len(cm.calls) :
            cm.calls[k].recipients =
                IF cm.args.recipients.none
                THEN DefaultRecipients(cm.calls[k].channel)
                ELSE cm.args.recipients.val

(***************************************************************************)
(* Claims about the blocking facade, checked under SpecEquiv.              *)
(***************************************************************************)
\* C9: given the same registry, fallback order, message, recipients and
\* channel scripts, Notifier.send (called where asyncio.run may start a
\* loop) and ANotifier.send end with the same outcome and have made the
\* same channel invocations with the same arguments, in the same order.
C9_BlockingAndAsyncAgree ==
    \A b \in Callers, a \in Callers :
        LET cb == campaign[b]
            ca == campaign[a]
        IN
        (/\ cb.entry = "Notifier" /\ ~cb.loop_running /\ cb.pc = "done"
         /\ ca.entry = "ANotifier" /\ ca.pc = "done"
         /\ cb.args = ca.args /\ cb.fails = ca.fails
         /\ cb.an = ca.an /\ Undisturbed(cb) /\ Undisturbed(ca)) =>
            /\ cb.result = ca.result
            /\ cb.error = ca.error
            /\ cb.calls = ca.calls

\* C9, witness: both calls have ended in fallback mode with an explicit
\* recipient list, after a failing channel and a succeeding one.
C9_Witness_BothEndedInFallback ==
    LET cb == campaign["c1"]
        ca == campaign["c2"]
    IN
    /\ cb.entry = "Notifier" /\ ~cb.loop_running /\ cb.pc = "done"
    /\ ca.entry = "ANotifier" /\ ca.pc = "done"
    /\ cb.args = ca.args /\ cb.fails = ca.fails
    /\ cb.an = ca.an /\ Undisturbed(cb) /\ Undisturbed(ca)
    /\ Truthy(cb.args.recipients)
    /\ Len(ca.an.fallback_order) = 2
    /\ Len(ca.calls) = 2 /\ Len(cb.calls) = 2
    /\ ca.result = "returned"

(***************************************************************************)
(* Claims about the concrete channels, checked under SpecChan.             *)
(***************************************************************************)
\* C10: a concrete channel's send attempts delivery to every recipient of
\* the list it is given; a failure for one recipient does not prevent the
\* attempts for the recipients after it.
C10_Stated_EveryRecipientAttempted ==
    delivery.pc = "done" =>
        [k \in 1..Len(delivery.attempts) |-> delivery.attempts[k].recipient]
            = delivery.recipients_to_use


\* the transport operation for one recipient failed: an exception, or a
\* response whose status is not 200
DeliveryFailed(outcome) == outcome \notin {"200", "sent"}

\* C11: a concrete channel's send never reports success when a delivery it
\* attempted failed: once an attempt has failed the call ends with an
\* error, and it returns normally only if every recipient was delivered to.
C11_NoSuccessAfterFailedDelivery ==
    /\ (\E k \in 1..Len(delivery.attempts) :
            DeliveryFailed(delivery.attempts[k].outcome)) =>
           /\ delivery.pc \in {"reading", "done"}
           /\ delivery.result # "returned"
           /\ delivery.pc = "done" =>
                  delivery.result = "raised" /\ delivery.error # "none"
    /\ delivery.result = "returned" =>
           /\ Len(delivery.attempts) = Len(delivery.recipients_to_use)
           /\ \A k \in 1..Len(delivery.attempts) :
                  /\ delivery.attempts[k].recipient =
                         delivery.recipients_to_use[k]
                  /\ ~DeliveryFailed(delivery.attempts[k].outcome)

\* C11, witness: the first delivery went through, the second was answered
\* with a status other than 200, and the call ended with an error.
C11_Witness_SecondDeliveryRefused ==
    /\ delivery.pc = "done"
    /\ delivery.result = "raised"
    /\ Len(delivery.attempts) = 2
    /\ delivery.attempts[1].outcome = "200"
    /\ delivery.attempts[2].outcome = "500"


\* the positions of the fallback order whose name matches no registry entry
MissingPositions(cm) ==
    {p \in 1..Len(cm.an.fallback_order) : Named(cm, p) = 0}

\* C12: in fallback mode a name that matches no registered channel is
\* skipped without error; when a later name resolves to a channel whose
\* send succeeds, the whole call succeeds.
C12_MissingNameIsSkipped ==
    \A c \in Callers :
        LET cm == campaign[c] IN
        (/\ Dispatched(cm) /\ Undisturbed(cm) /\ ~Broadcast(cm)
         /\ \E p \in MissingPositions(cm), q \in SucceedingPositions(cm) :
                p < q) =>
            /\ cm.result # "raised"
            /\ cm.pc = "done" =>
                   /\ cm.result = "returned"
                   /\ CallEntries(cm) =
                          NamedUpTo(cm, Min(SucceedingPositions(cm)))

\* C12, witness: the order is [unregistered name, registered name]; the
\* registered channel succeeded and so did the call.
C12_Witness_SucceedsPastMissingName ==
    LET cm == campaign["c1"] IN
    /\ Dispatched(cm) /\ Undisturbed(cm) /\ cm.pc = "done" /\ cm.result = "returned"
    /\ Len(cm.an.fallback_order) = 2
    /\ Named(cm, 1) = 0 /\ Named(cm, 2) # 0
    /\ CallEntries(cm) = <<Named(cm, 2)>>

\* C13: in fallback mode, when no name of the order resolves to a
\* registered channel (the registry may be empty), send invokes no channel
\* and fails with the all-channels-failed error; it never reports success.
C13_NothingResolvesAllFailed ==
    \A c \in Callers :
        LET cm == campaign[c] IN
        (/\ Dispatched(cm) /\ ~Broadcast(cm)
         /\ MissingPositions(cm) = 1..Len(cm.an.fallback_order)) =>
            /\ cm.calls = <<>>
            /\ cm.result # "returned"
            /\ cm.pc = "done" =>
                   cm.result = "raised" /\ cm.error = AllChannelsFailed

\* C13, witness: with an empty registry and a two-name order the call has
\* ended with the aggregate error.
C13_Witness_EmptyRegistryOrderSet ==
    LET cm == campaign["c1"] IN
    /\ Dispatched(cm) /\ cm.pc = "done"
    /\ cm.an.channels = <<>>
    /\ Len(cm.an.fallback_order) = 2
    /\ cm.error = AllChannelsFailed
    /\ cm.calls = <<>>

\* C14: in fallback mode an error raised by a channel's send never reaches
\* the caller: the call ends in success or in the aggregate error, and the
\* aggregate error is raised only after every name of the order has been
\* processed.
C14_FallbackSwallowsChannelErrors ==
    \A c \in Callers :
        LET cm == campaign[c] IN
        (Dispatched(cm) /\ ~Broadcast(cm)) =>
            /\ cm.error \in {NoError, AllChannelsFailed}
            /\ cm.pc = "done" =>
                   \/ cm.result = "returned" /\ cm.error = NoError
                   \/ cm.result = "raised" /\ cm.error = AllChannelsFailed
            /\ cm.error = AllChannelsFailed =>
                   /\ cm.pc = "done"
                   /\ cm.i = Len(cm.an.fallback_order)
                   /\ Undisturbed(cm) =>
                          CallEntries(cm) =
                              NamedUpTo(cm, Len(cm.an.fallback_order))

\* C14, witness: the first named channel raised, the second succeeded, and
\* the call returned without an error.
C14_Witness_FailureThenSuccess ==
    LET cm == campaign["c1"] IN
    /\ Dispatched(cm) /\ Undisturbed(cm) /\ ~Broadcast(cm) /\ cm.pc = "done"
    /\ Len(cm.calls) = 2
    /\ cm.calls[1].channel \in cm.fails
    /\ cm.result = "returned" /\ cm.error = NoError


\* C15: set_fallback_order replaces the order wholesale: the order a send
\* uses is exactly the one last set, whatever was set before; after
\* set_fallback_order([]) send is in broadcast mode again and invokes the
\* registered channels in registration order.
C15_SetFallbackOrderReplaces ==
    /\ last_order.set => fallback_order = last_order.order
    /\ \A c \in Callers :
           LET cm == campaign[c]
               n == Len(cm.an.channels)
           IN
           (Dispatched(cm) /\ OrderUnchanged(cm) /\ last_order.set) =>
               /\ cm.an.fallback_order = last_order.order
               /\ last_order.order = <<>> =>
                      /\ Broadcast(cm)
                      /\ IsPrefix(CallEntries(cm), [k \in 1..n |-> k])
                      /\ (cm.pc = "done"
                            /\ \A k \in 1..n : ~EntryFails(cm, k)) =>
                             CallEntries(cm) = [k \in 1..n |-> k]

\* C15, witness: after set_fallback_order([]) a send over two registered
\* channels has invoked both and returned.
C15_Witness_BroadcastAfterEmptyOrder ==
    LET cm == campaign["c1"] IN
    /\ last_order.set /\ last_order.order = <<>>
    /\ Dispatched(cm) /\ OrderUnchanged(cm) /\ cm.pc = "done" /\ cm.result = "returned"
    /\ CallEntries(cm) = <<1, 2>>


\* C16: the blocking Notifier.send can be called from a coroutine running
\* inside an event loop, as the tests of test_core.py do: the call runs
\* the campaign, the channel the fallback order selects is invoked exactly
\* once with the message and the resolved recipients, and the call does
\* not raise.
C16_Stated_BlockingSendInsideRunningLoop ==
    \A c \in Callers :
        LET cm == campaign[c] IN
        (/\ cm.entry = "Notifier" /\ cm.loop_running /\ cm.pc = "done"
         /\ SucceedingPositions(cm) # {}) =>
            LET k == Named(cm, Min(SucceedingPositions(cm))) IN
            /\ cm.result = "returned"
            /\ Count(cm.calls,
                     [entry |-> k,
                      channel |-> cm.an.channels[k].channel,
                      message |-> cm.args.message,
                      recipients |->
                          EffectiveRecipients(cm.args.recipients,
                                              cm.an.channels[k].channel)]) = 1


\* the channel sends of a campaign that were started and have not ended
InProgress(cm) == Len(cm.calls) - cm.ended

\* C17: within one send call, in both modes, at most one channel send is
\* in progress at any time: the next channel is invoked only after the
\* send of the one before has returned or raised.
C17_OneChannelSendAtATime ==
    \A c \in Callers :
        LET cm == campaign[c] IN
        /\ InProgress(cm) \in {0, 1}
        /\ InProgress(cm) = 1 <=> cm.pc = "awaiting"

\* C17, witness: the second channel's send is in progress and the first
\* one's has ended.
C17_Witness_SecondSendInProgress ==
    LET cm == campaign["c1"] IN
    /\ cm.pc = "awaiting"
    /\ Len(cm.calls) = 2
    /\ cm.ended = 1


\* the three ways a send call ends: it returns; in broadcast mode it raises
\* the error of the channel invoked last; in fallback mode it raises the
\* all-channels-failed error with the order run through
Outcome(cm) ==
    \/ /\ cm.result = "returned"
       /\ cm.error = NoError
    \/ /\ cm.result = "raised"
       /\ Broadcast(cm)
       /\ cm.calls # <<>>
       /\ cm.error = ChannelError(cm.calls[Len(cm.calls)].channel)
    \/ /\ cm.result = "raised"
       /\ ~Broadcast(cm)
       /\ cm.i = LoopLength(cm)
       /\ cm.error = AllChannelsFailed

\* C18: every send call whose channel sends all end runs to completion, and
\* it ends in one of three outcomes: success, the one propagated channel
\* error in broadcast mode, or the all-channels-failed error once the
\* fallback order is exhausted.
C18_SendRunsToCompletion ==
    \A c \in Callers :
        (campaign[c].pc \in {"running", "awaiting"})
            ~> (campaign[c].pc = "done" /\ Outcome(campaign[c]))

\* C18, witness: a broadcast over two channels has ended with the error of
\* the second one, after the first one returned.
C18_Witness_BroadcastEndedOnSecondError ==
    LET cm == campaign["c1"] IN
    /\ Dispatched(cm)
    /\ cm.pc = "done"
    /\ Broadcast(cm)
    /\ Len(cm.calls) = 2
    /\ cm.ended = 2
    /\ cm.result = "raised"
    /\ cm.error = ChannelError(cm.calls[2].channel)


\* a send call run from its start to its end with no other call around:
\* the loop of ANotifier.send, item after item
RECURSIVE RunAlone(_)
RunAlone(cm) ==
    IF cm.pc = "done" THEN cm
    ELSE IF cm.i >= LoopLength(cm) THEN RunAlone(OnExhausted(cm))
    ELSE IF Selected(cm) = 0 THEN RunAlone([cm EXCEPT !.i = @ + 1])
    ELSE LET k == Selected(cm)
             id == cm.an.channels[k].channel
             invoked == [cm EXCEPT !.calls = Append(@, Invocation(cm, k)),
                                   !.ended = @ + 1]
         IN  IF id \in cm.fails
             THEN RunAlone(OnRaised(invoked, ChannelError(id)))
             ELSE RunAlone(OnReturned(invoked))

\* the campaign a blocking call with these arguments makes on the Notifier
\* as it was when the call was made, run alone against the same channel
\* script
AloneRun(cm) ==
    LET call == AsyncSend(SubSeq(cm.an.channels, 1, cm.at_call),
                          cm.an.fallback_order, cm.args.message,
                          cm.args.recipients)
    IN  RunAlone(StartCampaign("Notifier", FALSE, cm.args, call.an,
                               call.message, call.recipients, cm.fails))

\* C19: when threads call Notifier.send on one Notifier at the same time,
\* with no registration change in between, every call that has ended has
\* the outcome and the sequence of channel invocations it would have had
\* running alone, whatever the interleaving of the threads.
C19_ConcurrentBlockingSendsRunAlone ==
    \A c \in Callers :
        LET cm == campaign[c] IN
        (/\ cm.pc = "done" /\ cm.entry = "Notifier" /\ ~cm.loop_running
         /\ Undisturbed(cm)) =>
            /\ cm.result = AloneRun(cm).result
            /\ cm.error = AloneRun(cm).error
            /\ cm.calls = AloneRun(cm).calls

\* C19, witness: two calls on the same Notifier are both outstanding and
\* both ended, one with explicit recipients and a success, the other with
\* the default recipients and the all-channels-failed error, each after
\* two invocations of its own.
C19_Witness_TwoThreadsDifferentOutcomes ==
    LET a == campaign["c1"]
        b == campaign["c2"]
    IN
    /\ a.pc = "done" /\ b.pc = "done"
    /\ Undisturbed(a) /\ Undisturbed(b) /\ a.an = b.an
    /\ a.entry = "Notifier" /\ b.entry = "Notifier"
    /\ a.args.recipients = Some(<<"r3">>) /\ b.args.recipients = None
    /\ a.result = "returned" /\ Len(a.calls) = 2
    /\ b.result = "raised" /\ b.error = AllChannelsFailed /\ Len(b.calls) = 2


\* the registry entries of a campaign whose name the fallback order leaves out
UnnamedEntries(cm) ==
    {k \in 1..Len(cm.an.channels) :
        \A p \in 1..Len(cm.an.fallback_order) :
            cm.an.fallback_order[p] # cm.an.channels[k].name}

\* C20: with a non-empty fallback order, a registered channel whose name
\* does not occur in the order is never invoked by send, whatever the other
\* channels do, also when every named channel fails.
C20_FallbackInvokesOnlyNamedChannels ==
    \A c \in Callers :
        LET cm == campaign[c] IN
        (Dispatched(cm) /\ ~Broadcast(cm)) =>
            \A n \in 1..Len(cm.calls) :
                cm.calls[n].entry \notin UnnamedEntries(cm)

\* C20, witness: the one named channel failed, the send ended with the
\* all-channels-failed error, and the registered channel the order leaves
\* out was not invoked.
C20_Witness_UnnamedLeftAloneWhenAllFail ==
    LET cm == campaign["c1"] IN
    /\ Dispatched(cm)
    /\ cm.pc = "done"
    /\ ~Broadcast(cm)
    /\ cm.error = AllChannelsFailed
    /\ Len(cm.calls) = 1
    /\ Len(cm.an.channels) = 2
    /\ UnnamedEntries(cm) # {}
    /\ \A k \in UnnamedEntries(cm) : cm.an.channels[k].channel \notin cm.fails


\* the registry entries of a campaign registered after another entry of the
\* same name
ShadowedEntries(cm) ==
    {k \in 1..Len(cm.an.channels) :
        \E j \in 1..(k - 1) : cm.an.channels[j].name = cm.an.channels[k].name}

\* C21: add_channel with an explicit name registers the channel under
\* exactly that name, also when the registry already holds that name; and
\* in fallback mode the lookup of a name selects the entry registered first
\* under it, so an entry registered later under the same name is never
\* invoked.
C21_DuplicateNamesFirstMatchWins ==
    /\ (/\ last_add.op = "add_channel"
        /\ ~last_add.name.none
        /\ last_add.raised = "none") =>
            channels = Append(last_add.before,
                              [name |-> last_add.name.val,
                               channel |-> last_add.channel])
    /\ \A c \in Callers :
        LET cm == campaign[c] IN
        (Dispatched(cm) /\ ~Broadcast(cm)) =>
            \A n \in 1..Len(cm.calls) :
                cm.calls[n].entry \notin ShadowedEntries(cm)

\* C21, witness: two channels were registered under the same explicit name,
\* the order names it, the first one failed and the send ended with the
\* all-channels-failed error although the second one would have succeeded.
C21_Witness_SecondOfSameNameNeverTried ==
    LET cm == campaign["c1"] IN
    /\ Dispatched(cm)
    /\ cm.pc = "done"
    /\ ~Broadcast(cm)
    /\ ~last_add.name.none
    /\ Len(cm.an.channels) = 2
    /\ cm.an.channels[1].name = cm.an.channels[2].name
    /\ cm.an.channels[1].channel # cm.an.channels[2].channel
    /\ cm.an.channels[1].channel \in cm.fails
    /\ cm.an.channels[2].channel \notin cm.fails
    /\ cm.calls # <<>>
    /\ cm.error = AllChannelsFailed


\* C22, as stated: within one send call no channel is invoked a second
\* time, for every registry and every fallback order, also an order that
\* lists the same name more than once.
C22_Stated_NoChannelInvokedTwice ==
    \A c \in Callers :
        LET cm == campaign[c] IN
        Dispatched(cm) =>
            \A n, m \in 1..Len(cm.calls) :
                cm.calls[n].entry = cm.calls[m].entry => n = m

\* C22, amended: the engine adds no invocation of its own.  Within one send
\* call a registry entry is invoked at most once in broadcast mode, and in
\* fallback mode at most once for every occurrence of its name in the
\* order: never a second time when the order lists its name once.
C22_NoInvocationBeyondTheOrder ==
    \A c \in Callers :
        LET cm == campaign[c] IN
        Dispatched(cm) =>
            \A k \in 1..Len(cm.an.channels) :
                Count(CallEntries(cm), k) <=
                    IF Broadcast(cm) THEN 1
                    ELSE Count(cm.an.fallback_order, cm.an.channels[k].name)

\* C22, witness: the order lists one name once next to a missing name, the
\* channel of that name failed, and the send ended after that single
\* invocation.
C22_Witness_FailedChannelInvokedOnce ==
    LET cm == campaign["c1"] IN
    /\ Dispatched(cm)
    /\ cm.pc = "done"
    /\ Len(cm.an.fallback_order) = 2
    /\ cm.an.fallback_order[1] # cm.an.fallback_order[2]
    /\ Len(cm.calls) = 1
    /\ cm.calls[1].channel \in cm.fails
    /\ cm.an.channels[cm.calls[1].entry].name = cm.an.fallback_order[1]
    /\ cm.error = AllChannelsFailed


\* str.endswith(suffix)
EndsWith(s, suffix) ==
    /\ Len(suffix) <= Len(s)
    /\ SubSeq(s, Len(s) - Len(suffix) + 1, Len(s)) = suffix

\* s without its trailing suffix, s itself when it does not end with it
RemoveSuffix(s, suffix) ==
    IF EndsWith(s, suffix) THEN SubSeq(s, 1, Len(s) - Len(suffix)) ELSE s

\* C23, as stated: for every channel type name the base name derived at
\* registration is the lower-cased type name with only a trailing "channel"
\* removed; a "channel" at the start or in the middle of the name is kept.
C23_Stated_OnlyTrailingChannelRemoved ==
    \A k \in 1..Len(registrations) :
        registrations[k].base =
            RemoveSuffix(Lower(ClassName(channels[k].channel)), ChannelWord)


\* a step of a send call: the call is made, its loop goes on, it ends
SendStep ==
    \E c \in Callers : SendAsync(c) \/ SendBlocking(c) \/ Step(c)

\* C24: send only reads the configuration.  No step of a send call, from
\* the call to its end, in either mode and whatever its outcome, changes
\* the registry or the fallback order; so it is for Notifier.send, which
\* hands both to a temporary ANotifier.  They change only by add_channel
\* and set_fallback_order.
C24_SendLeavesConfigurationAlone ==
    [][/\ SendStep => UNCHANGED <<channels, fallback_order>>
       /\ ~UNCHANGED <<channels, fallback_order>> =>
              ~UNCHANGED <<last_add, last_order>>]_vars

\* C24, witness: a blocking send in fallback mode has ended in success
\* after one channel failed and the next one returned, and the Notifier
\* still holds its two channels and its order of two names.
C24_Witness_BlockingFallbackSendEnded ==
    LET cm == campaign["c1"] IN
    /\ cm.entry = "Notifier"
    /\ ~cm.loop_running
    /\ cm.pc = "done"
    /\ cm.result = "returned"
    /\ Len(cm.calls) = 2
    /\ cm.ended = 2
    /\ Len(channels) = 2
    /\ Len(fallback_order) = 2
    /\ channels = cm.an.channels
    /\ fallback_order = cm.an.fallback_order


\* C25: with no channel registered, a send in broadcast mode (empty
\* fallback order) ends in success without invoking anything, and a send in
\* fallback mode (non-empty order) ends with the all-channels-failed error,
\* again without invoking anything.
C25_EmptyRegistryAsymmetry ==
    \A c \in Callers :
        LET cm == campaign[c] IN
        (Dispatched(cm) /\ Len(cm.an.channels) = 0) =>
            /\ cm.calls = <<>>
            /\ cm.pc # "awaiting"
            /\ cm.pc = "done" =>
                   IF Len(cm.an.fallback_order) = 0
                   THEN cm.result = "returned" /\ cm.error = NoError
                   ELSE cm.result = "raised" /\ cm.error = AllChannelsFailed

\* C25, witness: a broadcast send on a notifier without channels, made
\* after the order was set back to empty, has ended in success.
C25_Witness_BroadcastOnEmptyRegistrySucceeds ==
    LET cm == campaign["c1"] IN
    /\ Dispatched(cm)
    /\ cm.pc = "done"
    /\ Len(cm.an.channels) = 0
    /\ Len(cm.an.fallback_order) = 0
    /\ last_order.set
    /\ cm.result = "returned"
    /\ cm.calls = <<>>

=============================================================================
